---- MODULE Spec2Model ----
(***************************************************************************)
(* A model of url-short-ts (src/index.ts, the served version at lines      *)
(* 142-372): a URL shortener that keeps every mapping in one of three      *)
(* Redis instances, chosen by a character-code hash of the short id.       *)
(*                                                                         *)
(* Strings that the code only stores or compares are TLA+ strings; a short *)
(* id is the sequence of its UTF-16 code units, because getRedisClient     *)
(* computes with them.  A JavaScript value that may be undefined is a      *)
(* sequence of length 0 (undefined) or 1 (the value).                      *)
(***************************************************************************)
EXTENDS Integers, Sequences, FiniteSets, TLC

VARIABLES
    shards,     \* shards[i][k]: what Redis instance i holds under key k
    up,         \* up[i]: Redis instance i answers commands
    now,        \* the clock, in seconds
    advances,   \* how often the clock has been advanced
    req,        \* req[s]: the request handled on connection s
    hist,       \* hist[k]: the last store command that changed key k (history)
    selKey,     \* the selector on its own: the key given to it
    selN,       \* the selector on its own: the number of clients given to it
    selOut      \* the selector on its own: <<>> or <<the index it returned>>

vars == <<shards, up, now, advances, req, hist, selKey, selN, selOut>>
appVars == <<shards, up, now, advances, req, hist>>
selVars == <<selKey, selN, selOut>>

----------------------------------------------------------------------------
(* Program constants *)

\* const redisClients = [createClient, createClient, createClient]
NumShards == 3
\* nanoid(8)
IdLen == 8
\* EX: ttl || 3600
DefaultTtl == 3600

(* Bounds of the model *)

\* the largest ttl a request body carries (the smallest is -1)
MaxTtl == 1
\* how often the clock advances
MaxAdvances == 1
\* the selector on its own: the longest key and the largest number of clients
MaxKeyLen == 3
MaxShardCount == 4

----------------------------------------------------------------------------
(* Values *)

ShardIds == 0 .. (NumShards - 1)

\* An id of IdLen code units: "AAAAAAA" and one more letter
Id(last) == [i \in 1 .. IdLen |-> IF i < IdLen THEN 65 ELSE last]

\* The ids nanoid(8) returns here, "AAAAAAAA" and "AAAAAAAB": getRedisClient
\* sends them to different instances.
NanoIds == { Id(65), Id(66) }

\* A path that is no id ("x"); it selects the third instance.
StrayPath == << 120 >>

\* url.pathname.slice(1) of a GET or DELETE request
Paths == NanoIds \cup { StrayPath }

\* the selector on its own: the code units of "-", "A", "_", "z", and the keys
\* made of them
SelCodes == { 45, 65, 95, 122 }
SelKeys == UNION { [1 .. n -> SelCodes] : n \in 0 .. MaxKeyLen }

Urls == { "https://youtube.com", "https://x.com" }

\* body.url: undefined, the empty string, or a url
UrlInputs == { << >>, << "" >> } \cup { << u >> : u \in Urls }

\* body.ttl: undefined or an integer
TtlInputs == { << >> } \cup { << t >> : t \in (-1) .. MaxTtl }

\* await req.json(): a body that is no JSON object, or the parsed object
BadJson == [json |-> FALSE, url |-> << >>, ttl |-> << >>]
Bodies == { BadJson } \cup [json : { TRUE }, url : UrlInputs, ttl : TtlInputs]

\* the connections on which requests arrive; Spec uses the first only
Slots == { "c1", "c2" }
Serial == { "c1" }

\* request bodies of the two-connection specification: a url and no or a
\* positive ttl
PlainBodies == { b \in Bodies : /\ b.json
                                /\ b.url # << >> /\ b.url[1] # ""
                                /\ (b.ttl = << >> \/ b.ttl[1] > 0) }

\* how far one step advances the clock
Durations == { 1, DefaultTtl }

NoEntry == [present |-> FALSE, val |-> "", exp |-> 0]
Entry(v, e) == [present |-> TRUE, val |-> v, exp |-> e]

\* over (history): the shorten that was answered found its id held already
Idle == [op |-> "none", pc |-> "idle", key |-> << >>, shard |-> 0,
         url |-> << >>, ttl |-> << >>, status |-> 0, msg |-> "", loc |-> "",
         over |-> FALSE]

\* hist[k], the history of key k as the callers saw it.  state: "never"
\* written; "written" by a shorten that answered 200, with the url, the time
\* at which the ttl it asked for runs out, and the instance written to;
\* "expired" once that time has come; "removed" once a DELETE answered 200
NoHist == [state |-> "never", url |-> "", due |-> 0, shard |-> 0]
Gone(h, why) == [NoHist EXCEPT !.state = why, !.shard = h.shard]

\* the ttl a shorten request asks for: the one it names, if positive, else the
\* default of one hour
NominalTtl(ttl) == IF ttl = << >> \/ ttl[1] <= 0 THEN 3600 ELSE ttl[1]

----------------------------------------------------------------------------
(* getRedisClient, src/index.ts:168-171 *)

\* key.split("").reduce((acc, char) => acc + char.charCodeAt(0), 0)
RECURSIVE Reduce(_, _)
Reduce(acc, chars) ==
    IF chars = << >> THEN acc
    ELSE Reduce(acc + Head(chars), Tail(chars))

\* a selector that looks at the first character only
HashFirstChar(key) == IF key = << >> THEN 0 ELSE key[1]

Hash(key) == Reduce(0, key)

\* an index counted from 1
ClientIndexFromOne(key, n) == (Hash(key) % n) + 1

\* hash % redisClients.length, for a client array of length n
ClientIndex(key, n) == Hash(key) % n

\* a selector that counts only the clients that are connected right now
getRedisClientLive(key) ==
    LET live == { i \in ShardIds : up[i] }
    IN  IF live = {} THEN 0 ELSE Hash(key) % Cardinality(live)

getRedisClient(key) == ClientIndex(key, NumShards)

----------------------------------------------------------------------------
(* JavaScript truthiness of the two body fields *)

\* !originalUrl, src/index.ts:304
MissingUrlUndefinedOnly(url) == url = << >>

MissingUrl(url) == url = << >> \/ url[1] = ""

\* ttl || 3600, src/index.ts:315
EffectiveTtlZeroDefault(ttl) == IF ttl = << >> THEN 0 ELSE ttl[1]

EffectiveTtl(ttl) == IF ttl = << >> \/ ttl[1] = 0 THEN DefaultTtl ELSE ttl[1]

\* redisClient.set(shortId, originalUrl, { EX: ttl || 3600 }), src/index.ts:314-316
\* nx: the NX option (set only if the key is not held), which the code never gives
SetCommandShortUrl(r) ==
    [key |-> r.key, value |-> "http://localhost:3000/",
     seconds |-> EffectiveTtl(r.ttl), nx |-> FALSE]

SetCommandMillis(r) ==
    [key |-> r.key, value |-> r.url[1],
     seconds |-> EffectiveTtl(r.ttl) * 1000, nx |-> FALSE]

\* a write that takes care not to replace a key that is held
SetCommandNx(r) ==
    [key |-> r.key, value |-> r.url[1], seconds |-> EffectiveTtl(r.ttl), nx |-> TRUE]

\* a write under an id kept in a variable that all requests share
SetCommandSharedId(r) ==
    LET others == { t \in DOMAIN req : /\ req[t].pc = "await"
                                       /\ req[t].op = "shorten"
                                       /\ req[t].key # r.key }
    IN  [key |-> IF others = {} THEN r.key ELSE req[CHOOSE t \in others : TRUE].key,
         value |-> r.url[1], seconds |-> EffectiveTtl(r.ttl), nx |-> FALSE]

SetCommand(r) ==
    [key |-> r.key, value |-> r.url[1], seconds |-> EffectiveTtl(r.ttl), nx |-> FALSE]

\* deleted === 0, src/index.ts:349
RemovedNothingInverted(deleted) == deleted # 0

\* a handler that does not look at the count
RemovedNothingNever(deleted) == FALSE

RemovedNothing(deleted) == deleted = 0

----------------------------------------------------------------------------
(* The Redis commands the handlers send, as one instance applies them *)

\* SET key value EX seconds: an expire time that is not positive is an error
SetAccepted(seconds) == seconds > 0

RedisSet(store, key, value, seconds) ==
    [store EXCEPT ![key] = Entry(value, now + seconds)]

\* SET ... NX leaves a key that is held as it is (and answers nil, not an error)
SetApplies(store, cmd) == ~(cmd.nx /\ store[cmd.key].present)

\* GET key: the value, or nil
RedisGet(store, key) == IF store[key].present THEN << store[key].val >> ELSE << >>

\* GETDEL key: a read that removes what it read
RedisGetDel(store, key) == [store EXCEPT ![key] = NoEntry]

\* what a GET leaves of the instance: all of it
RedisAfterGet(store, key) == store

\* DEL key: the number of keys removed
RedisDelCount(store, key) == IF store[key].present THEN 1 ELSE 0

\* a DEL that leaves an empty value behind instead of nothing
RedisDelTombstone(store, key) == [store EXCEPT ![key] = Entry("", 0)]

RedisDel(store, key) == [store EXCEPT ![key] = NoEntry]

\* expiry: an instance drops every entry whose expire time has come
Expire(store, t) ==
    [k \in DOMAIN store |->
        IF store[k].present /\ store[k].exp <= t THEN NoEntry ELSE store[k]]

----------------------------------------------------------------------------
(* Responses *)

\* an answer that tells a key whose ttl ran out from one that never was
RespondGone(r, status, msg, loc) ==
    LET gone == /\ r.op = "resolve"
                /\ status = 404
                /\ hist[r.key].state = "expired"
    IN  [Idle EXCEPT !.op = r.op, !.pc = "done",
                     !.status = IF gone THEN 410 ELSE status,
                     !.msg = IF gone THEN "URL expired" ELSE msg,
                     !.loc = loc,
                     !.key = IF r.op = "shorten" /\ status # 200 THEN << >> ELSE r.key,
                     !.url = IF r.op = "shorten" /\ status # 200 THEN r.url ELSE << >>]

\* the handler returns: the connection keeps the operation, the response, the
\* id or path it is about and, of a shorten that failed, the url it was given
Respond(r, status, msg, loc) ==
    [Idle EXCEPT !.op = r.op, !.pc = "done", !.status = status, !.msg = msg,
                 !.loc = loc,
                 !.key = IF r.op = "shorten" /\ status # 200 THEN << >> ELSE r.key,
                 !.url = IF r.op = "shorten" /\ status # 200 THEN r.url ELSE << >>]

\* a handler that fails over to the next client and waits again
UncaughtRetry(r) == [r EXCEPT !.shard = (r.shard + 1) % NumShards]

\* a handler that takes a store failure for a key that is not there
UncaughtAsNotFound(r) == Respond(r, 404, "URL not found", "")

\* a handler that throws: Bun answers 500
Uncaught(r) == Respond(r, 500, "", "")

Free(s) == req[s].pc # "await"

\* clients that share one connection: all are lost when one is
ReachableAll(i) == \A j \in ShardIds : up[j]

\* each client has its own connection: a command to instance i fails when i
\* is lost, whatever the state of the others
Reachable(i) == up[i]

----------------------------------------------------------------------------
(* Initial state: after `await Promise.all(redisClients.map(connect))` *)

Init ==
    /\ shards = [i \in ShardIds |-> [k \in Paths |-> NoEntry]]
    /\ up = [i \in ShardIds |-> TRUE]
    /\ now = 0
    /\ advances = 0
    /\ req = [s \in Slots |-> Idle]
    /\ hist = [k \in Paths |-> NoHist]
    /\ selKey = << >>
    /\ selN = 1
    /\ selOut = << >>

----------------------------------------------------------------------------
(* POST /shorten, src/index.ts:299-327 *)

\* lines 300-314: up to the point where the SET is sent
ShortenRequest(s, body, id) ==
    /\ Free(s)
    /\ LET r == [Idle EXCEPT !.op = "shorten", !.url = body.url, !.ttl = body.ttl]
       IN  req' = [req EXCEPT ![s] =
                IF ~body.json
                THEN Respond(r, 400, "Invalid request", "")
                ELSE IF MissingUrl(body.url)
                THEN Respond(r, 400, "URL is required", "")
                ELSE [r EXCEPT !.pc = "await", !.key = id,
                               !.shard = getRedisClient(id)]]
    /\ UNCHANGED <<shards, up, now, advances, hist, selVars>>

\* lines 314-326: the SET is applied or fails, and the handler answers
ShortenComplete(s) ==
    LET r == req[s]
        cmd == SetCommand(r)
        ok == Reachable(r.shard) /\ SetAccepted(cmd.seconds)
    IN  /\ r.pc = "await"
        /\ r.op = "shorten"
        /\ IF ok
           THEN /\ shards' = [shards EXCEPT ![r.shard] =
                                 IF SetApplies(@, cmd)
                                 THEN RedisSet(@, cmd.key, cmd.value, cmd.seconds)
                                 ELSE @]
                /\ hist' = [hist EXCEPT ![r.key] =
                               [state |-> "written", url |-> r.url[1],
                                due |-> now + NominalTtl(r.ttl),
                                shard |-> r.shard]]
                /\ req' = [req EXCEPT ![s] =
                              [Respond(r, 200, "", "") EXCEPT
                                  !.over = \E i \in ShardIds : shards[i][r.key].present]]
           ELSE /\ req' = [req EXCEPT ![s] = Respond(r, 400, "Invalid request", "")]
                /\ UNCHANGED <<shards, hist>>
        /\ UNCHANGED <<up, now, advances, selVars>>

----------------------------------------------------------------------------
(* GET /:shortId, src/index.ts:330-340 *)

\* lines 330-333: up to the point where the GET is sent
ResolveRequest(s, path) ==
    /\ Free(s)
    /\ Len(path) > 0
    /\ req' = [req EXCEPT ![s] =
                  [Idle EXCEPT !.op = "resolve", !.pc = "await", !.key = path,
                               !.shard = getRedisClient(path)]]
    /\ UNCHANGED <<shards, up, now, advances, hist, selVars>>

\* lines 333-339: the GET is answered or fails, and the handler answers
ResolveComplete(s) ==
    LET r == req[s]
        originalUrl == RedisGet(shards[r.shard], r.key)
    IN  /\ r.pc = "await"
        /\ r.op = "resolve"
        /\ req' = [req EXCEPT ![s] =
                      IF ~Reachable(r.shard) THEN Uncaught(r)
                      ELSE IF originalUrl = << >> \/ originalUrl[1] = ""
                      THEN Respond(r, 404, "URL not found", "")
                      ELSE Respond(r, 302, "", originalUrl[1])]
        /\ shards' = IF ~Reachable(r.shard) THEN shards
                     ELSE [shards EXCEPT ![r.shard] = RedisAfterGet(@, r.key)]
        /\ UNCHANGED <<up, now, advances, hist, selVars>>

----------------------------------------------------------------------------
(* DELETE /:shortId, src/index.ts:343-365 *)

\* a DELETE handler that always takes the first client
RemoveRequestFirstClient(s, path) ==
    /\ Free(s)
    /\ Len(path) > 0
    /\ req' = [req EXCEPT ![s] =
                  [Idle EXCEPT !.op = "remove", !.pc = "await", !.key = path,
                               !.shard = 0]]
    /\ UNCHANGED <<shards, up, now, advances, hist, selVars>>

\* lines 343-347: up to the point where the DEL is sent
RemoveRequest(s, path) ==
    /\ Free(s)
    /\ Len(path) > 0
    /\ req' = [req EXCEPT ![s] =
                  [Idle EXCEPT !.op = "remove", !.pc = "await", !.key = path,
                               !.shard = getRedisClient(path)]]
    /\ UNCHANGED <<shards, up, now, advances, hist, selVars>>

\* lines 347-364: the DEL is applied or fails, and the handler answers
RemoveComplete(s) ==
    LET r == req[s]
        deleted == RedisDelCount(shards[r.shard], r.key)
    IN  /\ r.pc = "await"
        /\ r.op = "remove"
        /\ IF ~Reachable(r.shard)
           THEN /\ req' = [req EXCEPT ![s] = Uncaught(r)]
                /\ UNCHANGED <<shards, hist>>
           ELSE /\ shards' = [shards EXCEPT ![r.shard] = RedisDel(@, r.key)]
                /\ IF RemovedNothing(deleted)
                   THEN /\ req' = [req EXCEPT ![s] =
                                     Respond(r, 404, "Short URL not found", "")]
                        /\ UNCHANGED hist
                   ELSE /\ req' = [req EXCEPT ![s] =
                                     Respond(r, 200, "Short URL deleted successfully", "")]
                        /\ hist' = [hist EXCEPT ![r.key] = Gone(@, "removed")]
        /\ UNCHANGED <<up, now, advances, selVars>>

----------------------------------------------------------------------------
(* The environment: time passes, a Redis instance is lost and comes back *)

Advance(d) ==
    /\ advances < MaxAdvances
    /\ advances' = advances + 1
    /\ now' = now + d
    /\ shards' = [i \in ShardIds |-> Expire(shards[i], now + d)]
    /\ hist' = [k \in Paths |->
                  IF hist[k].state = "written"
                     /\ now + d >= hist[k].due
                  THEN Gone(hist[k], "expired") ELSE hist[k]]
    /\ UNCHANGED <<up, req, selVars>>

ShardDown(i) ==
    /\ \A j \in ShardIds : up[j]
    /\ up' = [up EXCEPT ![i] = FALSE]
    /\ UNCHANGED <<shards, now, advances, req, hist, selVars>>

ShardUp(i) ==
    /\ ~up[i]
    /\ up' = [up EXCEPT ![i] = TRUE]
    /\ UNCHANGED <<shards, now, advances, req, hist, selVars>>

----------------------------------------------------------------------------
(* The shard selector on its own: any key, any number of clients *)

SelectCall(key, n) ==
    /\ selOut # << >>
    /\ selKey' = key
    /\ selN' = n
    /\ selOut' = << >>
    /\ UNCHANGED appVars

SelectReturn ==
    /\ selOut = << >>
    /\ selOut' = << ClientIndex(selKey, selN) >>
    /\ UNCHANGED <<appVars, selKey, selN>>

InitSelect ==
    /\ shards = [i \in ShardIds |-> [k \in Paths |-> NoEntry]]
    /\ up = [i \in ShardIds |-> TRUE]
    /\ now = 0
    /\ advances = 0
    /\ req = [s \in Slots |-> Idle]
    /\ hist = [k \in Paths |-> NoHist]
    /\ selKey \in SelKeys
    /\ selN \in 1 .. MaxShardCount
    /\ selOut = << >>

NextSelect ==
    \/ \E key \in SelKeys, n \in 1 .. MaxShardCount : SelectCall(key, n)
    \/ SelectReturn

SpecSelect == InitSelect /\ [][NextSelect]_vars

----------------------------------------------------------------------------
(* One connection: requests one after the other, while time passes and      *)
(* instances are lost and come back                                         *)
Next ==
    \/ \E s \in Serial, body \in Bodies, id \in NanoIds : ShortenRequest(s, body, id)
    \/ \E s \in Serial : ShortenComplete(s)
    \/ \E s \in Serial, path \in Paths : ResolveRequest(s, path)
    \/ \E s \in Serial : ResolveComplete(s)
    \/ \E s \in Serial, path \in Paths : RemoveRequest(s, path)
    \/ \E s \in Serial : RemoveComplete(s)
    \/ \E d \in Durations : Advance(d)
    \/ \E i \in ShardIds : ShardDown(i)
    \/ \E i \in ShardIds : ShardUp(i)

Spec == Init /\ [][Next]_vars

(* Two connections: requests that overlap, while time passes *)
NextConc ==
    \/ \E s \in Slots, body \in PlainBodies, id \in NanoIds : ShortenRequest(s, body, id)
    \/ \E s \in Slots : ShortenComplete(s)
    \/ \E s \in Slots, path \in NanoIds : ResolveRequest(s, path)
    \/ \E s \in Slots : ResolveComplete(s)
    \/ \E s \in Slots, path \in NanoIds : RemoveRequest(s, path)
    \/ \E s \in Slots : RemoveComplete(s)
    \/ \E d \in Durations : Advance(d)

SpecConc == Init /\ [][NextConc]_vars

----------------------------------------------------------------------------
(* The vocabulary of the properties *)

\* the sum of the character codes of key, taken from its last character back
RECURSIVE SumCodes(_)
SumCodes(key) ==
    IF Len(key) = 0 THEN 0
    ELSE key[Len(key)] + SumCodes(SubSeq(key, 1, Len(key) - 1))

\* select(k, N)
Select(key, n) == SumCodes(key) % n

\* the instance a key belongs to
Home(key) == Select(key, NumShards)

\* connection s gets the answer to its operation op in this step
Completes(s, op) ==
    /\ req[s].pc = "await"
    /\ req[s].op = op
    /\ req'[s].pc = "done"

\* connection s starts a shorten in this step
StartsShorten(s) ==
    /\ req[s].pc # "await"
    /\ req'[s] # req[s]
    /\ req'[s].op = "shorten"

Answered(s, op, status) ==
    /\ req[s].pc = "done"
    /\ req[s].op = op
    /\ req[s].status = status

----------------------------------------------------------------------------
(* C1. Round trip: once a shorten of url has answered with id k, a resolve  *)
(* of k that is answered before the ttl has run out, with no remove of k    *)
(* and no other shorten that generated k in between, and whose instance is  *)
(* reachable, redirects to exactly url.                                     *)
C1_RoundTrip ==
    [][\A s \in Slots :
          (/\ Completes(s, "resolve")
           /\ hist[req[s].key].state = "written"
           /\ up[Home(req[s].key)])
          => /\ req'[s].status = 302
             /\ req'[s].loc = hist[req[s].key].url]_vars

\* a resolve was redirected to the url of a shorten made before the clock moved
C1_Witness ==
    \E s \in Slots :
        /\ Answered(s, "resolve", 302)
        /\ hist[req[s].key].state = "written"
        /\ req[s].loc = hist[req[s].key].url
        /\ now > 0

(* C2. In every reachable state, every key held by some instance is held    *)
(* by the instance select(k, N) and by no other.                            *)
C2_OneShard ==
    \A i \in ShardIds, k \in Paths :
        shards[i][k].present => i = Select(k, NumShards)

\* both ids are held, each by its own instance, while requests are in flight
C2_Witness ==
    /\ \A k \in NanoIds : shards[Home(k)][k].present
    /\ \A s \in Slots : req[s].pc = "await"

(* C3. Shard locality: the instance a resolve or a remove of k is sent to   *)
(* is the instance the shorten wrote k to, whatever happened in between.    *)
C3_ShardLocality ==
    \A s \in Slots :
        (/\ req[s].pc = "await"
         /\ req[s].op \in { "resolve", "remove" }
         /\ hist[req[s].key].state # "never")
        => req[s].shard = hist[req[s].key].shard

\* a remove is in flight for a key written before an instance was lost and
\* before the clock moved
C3_Witness ==
    \E s \in Slots :
        /\ req[s].pc = "await"
        /\ req[s].op = "remove"
        /\ hist[req[s].key].state = "written"
        /\ req[s].shard = hist[req[s].key].shard
        /\ req[s].shard # 0
        /\ now > 0
        /\ \E i \in ShardIds : ~up[i]

(* C4. Delete-then-resolve: once a remove of k has answered "deleted", and  *)
(* until a shorten writes k again, no resolve of k is redirected and no     *)
(* remove of k answers "deleted"; each answers not found (404) when its     *)
(* instance is reachable.                                                   *)
C4_DeleteThenResolve ==
    [][\A s \in Slots :
          (/\ Completes(s, "resolve") \/ Completes(s, "remove")
           /\ hist[req[s].key].state = "removed")
          => /\ req'[s].status \notin { 200, 302 }
             /\ up[Home(req[s].key)] =>
                   /\ req'[s].status = 404
                   /\ req'[s].msg = IF req[s].op = "resolve" THEN "URL not found"
                                    ELSE "Short URL not found"]_vars

\* a key was removed; after that one connection resolved it and the other
\* removed it again, and both were told not found
C4_Witness ==
    \E k \in NanoIds :
        /\ hist[k].state = "removed"
        /\ \E s, t \in Slots :
              /\ Answered(s, "resolve", 404) /\ req[s].key = k
              /\ Answered(t, "remove", 404) /\ req[t].key = k

(* C5. Expiry: an entry is held only while the ttl of the last write of its *)
(* key has not run out (now < write time + ttl); once it has, a resolve of  *)
(* the key answers not found though no remove was ever made.                *)
C5_Expiry ==
    [][/\ \A i \in ShardIds, k \in Paths :
             shards'[i][k].present =>
                 hist'[k].state = "written" /\ now' < hist'[k].due
       /\ \A s \in Slots :
             (/\ Completes(s, "resolve")
              /\ hist[req[s].key].state = "expired"
              /\ up[Home(req[s].key)])
             => /\ req'[s].status = 404
                /\ req'[s].msg = "URL not found"]_vars

\* a resolve of an expired key was told not found while the other key,
\* written with the default ttl, is still held
C5_Witness ==
    \E s \in Slots :
        /\ Answered(s, "resolve", 404)
        /\ hist[req[s].key].state = "expired"
        /\ \E k \in NanoIds : shards[Home(k)][k].present

(* C6. Default ttl: a shorten with a url and no ttl stores its entry with a *)
(* ttl of exactly 3600 seconds, one with a positive ttl with exactly that   *)
(* ttl (the instance being reachable).                                      *)
C6_DefaultTtl ==
    [][\A s \in Slots :
          (/\ Completes(s, "shorten")
           /\ up[Home(req[s].key)]
           /\ req[s].ttl = << >> \/ req[s].ttl[1] > 0)
          => /\ req'[s].status = 200
             /\ shards'[Home(req[s].key)][req[s].key] =
                   Entry(req[s].url[1],
                         now + (IF req[s].ttl = << >> THEN 3600 ELSE req[s].ttl[1]))]_vars

\* at one moment, one id is stored for 3600 seconds and the other for 1 second
C6_Witness ==
    /\ \E k \in NanoIds : /\ shards[Home(k)][k].present
                          /\ shards[Home(k)][k].exp = now + 3600
    /\ \E k \in NanoIds : /\ shards[Home(k)][k].present
                          /\ shards[Home(k)][k].exp = now + 1
    /\ \E s \in Slots : Answered(s, "shorten", 200)

(* C7. A shorten with a url and a ttl that is zero or negative succeeds and *)
(* stores its entry with the default ttl of 3600 seconds (the instance      *)
(* being reachable).                                                        *)
C7_NonPositiveTtl ==
    [][\A s \in Slots :
          (/\ Completes(s, "shorten")
           /\ up[Home(req[s].key)]
           /\ req[s].ttl # << >>
           /\ req[s].ttl[1] <= 0)
          => /\ req'[s].status = 200
             /\ shards'[Home(req[s].key)][req[s].key] =
                   Entry(req[s].url[1], now + 3600)]_vars

(* C8. Missing url: a shorten whose url is absent or empty answers 400,     *)
(* sends no store command and leaves every instance as it was.              *)
C8_MissingUrl ==
    [][\A s \in Slots :
          (/\ StartsShorten(s)
           /\ req'[s].url = << >> \/ req'[s].url[1] = "")
          => /\ req'[s].pc = "done"
             /\ req'[s].status = 400
             /\ shards' = shards
             /\ hist' = hist]_vars

\* a shorten with an empty url was told that the url is required
C8_Witness ==
    \E s \in Slots :
        /\ Answered(s, "shorten", 400)
        /\ req[s].url = << "" >>
        /\ req[s].msg = "URL is required"

(* C9. When the store write of a shorten with a url fails, the shorten      *)
(* answers with a server error (5xx), which the caller can tell from the    *)
(* client error (400) of a missing url.                                     *)
C9_BackendError ==
    [][\A s \in Slots :
          (/\ Completes(s, "shorten")
           /\ ~up[req[s].shard])
          => req'[s].status \in 500 .. 599]_vars

(* C10. select(k, N) is the sum of the character codes of k modulo N, for   *)
(* every key and every N >= 1; so it is an index in 0 .. N-1, and it is 0   *)
(* for the empty key.                                                       *)
C10_Select ==
    selOut # << >> =>
        /\ selOut[1] = Select(selKey, selN)
        /\ selOut[1] \in 0 .. (selN - 1)
        /\ selKey = << >> => selOut[1] = 0

\* "-Az" with three clients gives (45 + 65 + 122) mod 3 = 1
C10_Witness ==
    /\ selKey = << 45, 65, 122 >>
    /\ selN = 3
    /\ selOut = << 1 >>

----------------------------------------------------------------------------
\* what instance Home(key) holds under key
Held(key) == shards[Home(key)][key]

\* what instance Home(key) holds under key after this step
HeldAfter(key) == shards'[Home(key)][key]

\* every entry but those of key is left as it was in this step
OthersKept(key) ==
    \A i \in ShardIds, k \in Paths : k # key => shards'[i][k] = shards[i][k]

(* C11. A remove of k answers "deleted" exactly when k is held by its       *)
(* instance at the moment the DEL is applied, and k is not held after; it   *)
(* answers not found exactly when k is not held, and then every instance    *)
(* is left as it was (the instance being reachable).                        *)
C11_Remove ==
    [][\A s \in Slots :
          (Completes(s, "remove") /\ up[Home(req[s].key)])
          => IF Held(req[s].key).present
             THEN /\ req'[s].status = 200
                  /\ req'[s].msg = "Short URL deleted successfully"
                  /\ \A i \in ShardIds : ~shards'[i][req[s].key].present
                  /\ OthersKept(req[s].key)
             ELSE /\ req'[s].status = 404
                  /\ req'[s].msg = "Short URL not found"
                  /\ shards' = shards]_vars

\* a remove has just answered "deleted": the key is gone and the other id is
\* still held
C11_Witness ==
    \E s \in Slots :
        /\ Answered(s, "remove", 200)
        /\ hist[req[s].key].state = "removed"
        /\ ~Held(req[s].key).present
        /\ \E k \in NanoIds : Held(k).present

(* C12. Two shortens that overlap and generated different ids do not        *)
(* interfere: whichever write is applied, it succeeds, stores the url and   *)
(* the ttl of its own call under its own id, and leaves every other entry   *)
(* as it was, as it would with no other call in flight.                     *)
C12_NoInterference ==
    [][\A s, t \in Slots :
          (/\ s # t
           /\ Completes(s, "shorten")
           /\ req[t].op = "shorten"
           /\ req[t].pc = "await"
           /\ req[t].key # req[s].key)
          => /\ req'[s].status = 200
             /\ req'[s].key = req[s].key
             /\ shards'[Home(req[s].key)][req[s].key] =
                   Entry(req[s].url[1], now + NominalTtl(req[s].ttl))
             /\ OthersKept(req[s].key)
             /\ req'[t] = req[t]]_vars

\* both connections were answered for different ids, and the two ids are held
\* with different urls and different expire times
C12_Witness ==
    \E s, t \in Slots :
        /\ Answered(s, "shorten", 200)
        /\ Answered(t, "shorten", 200)
        /\ req[s].key # req[t].key
        /\ Held(req[s].key).present
        /\ Held(req[t].key).present
        /\ Held(req[s].key).val # Held(req[t].key).val
        /\ Held(req[s].key).exp # Held(req[t].key).exp

\* a shorten that generated k on connection s and a remove of k on t, each in
\* flight or answered
Racing(s, t) ==
    /\ s # t
    /\ req[s].op = "shorten"
    /\ req[t].op = "remove"
    /\ req[s].key = req[t].key
    /\ req[s].pc \in { "await", "done" }
    /\ req[t].pc \in { "await", "done" }

(* C13. When a shorten that generated k and a remove of k overlap, the      *)
(* command applied last decides: when the write is applied k is held with   *)
(* the shorten's url, whether or not the delete came first, and when the    *)
(* delete is applied k is not held, whether or not the write came first.    *)
C13_LastCommandWins ==
    [][\A s, t \in Slots :
          Racing(s, t) =>
             /\ Completes(s, "shorten") =>
                   /\ HeldAfter(req[s].key) =
                         Entry(req[s].url[1], now + NominalTtl(req[s].ttl))
                   /\ \A i \in ShardIds : i # Home(req[s].key) =>
                         ~shards'[i][req[s].key].present
             /\ Completes(t, "remove") =>
                   \A i \in ShardIds : ~shards'[i][req[t].key].present]_vars

\* the delete came first and found nothing, then the write was applied: the key
\* is held
C13_Witness ==
    \E s, t \in Slots :
        /\ Racing(s, t)
        /\ Answered(s, "shorten", 200)
        /\ Answered(t, "remove", 404)
        /\ ~req[s].over
        /\ hist[req[s].key].state = "written"
        /\ Held(req[s].key).present

(* C14. Collision overwrite: a shorten whose generated id is held already   *)
(* makes no check and takes no other id; it succeeds, the entry holds the   *)
(* new url instead of the earlier one, its ttl runs anew from the new       *)
(* call's ttl, and a later resolve is redirected to the new url (C1).       *)
C14_Overwrite ==
    [][\A s \in Slots :
          (/\ Completes(s, "shorten")
           /\ up[Home(req[s].key)]
           /\ Held(req[s].key).present
           /\ req[s].ttl = << >> \/ req[s].ttl[1] >= 0)
          => /\ req'[s].status = 200
             /\ req'[s].key = req[s].key
             /\ HeldAfter(req[s].key) =
                   Entry(req[s].url[1], now + NominalTtl(req[s].ttl))
             /\ hist'[req[s].key].url = req[s].url[1]]_vars

\* a shorten that found its id held was answered after the clock had moved;
\* the entry runs for a full ttl from now
C14_Witness ==
    \E s \in Slots :
        /\ Answered(s, "shorten", 200)
        /\ req[s].over
        /\ now > 0
        /\ Held(req[s].key).present
        /\ Held(req[s].key).val = hist[req[s].key].url
        /\ Held(req[s].key).exp = now + 3600

\* the one connection whose operation is answered in this step, if any
Completing == { s \in Slots : req[s].pc = "await" /\ req'[s] # req[s] }

(* C15. Every operation sends at most one store command, to the one         *)
(* instance selected from its key: the command is bound for Home(key); the  *)
(* step that applies it answers the operation, so no second command         *)
(* follows; the instances change only in such a step (or by expiry) and     *)
(* only at that instance and key; and when the command fails the operation  *)
(* fails at once, with no instance changed.                                 *)
C15_OneCommand ==
    [][/\ \A s \in Slots :
             req[s].pc = "await" =>
                /\ req[s].shard = Home(req[s].key)
                /\ req'[s] # req[s] =>
                      /\ req'[s].pc = "done"
                      /\ \A i \in ShardIds, k \in Paths :
                            shards'[i][k] # shards[i][k] =>
                               i = Home(req[s].key) /\ k = req[s].key
                      /\ ~up[req[s].shard] =>
                            /\ req'[s].status \in { 400, 500 }
                            /\ shards' = shards
       /\ (shards' # shards /\ now' = now) => Completing # {}
       /\ Cardinality(Completing) <= 1]_vars

\* an operation bound for a lost instance was answered with a failure and its
\* key is still held there, while the other instances are reachable
C15_Witness ==
    \E s \in Slots :
        /\ Answered(s, "remove", 500)
        /\ ~up[Home(req[s].key)]
        /\ Held(req[s].key).present
        /\ \A i \in ShardIds : i # Home(req[s].key) => up[i]

(* C16. A resolve is non-destructive: neither its start nor its answer,     *)
(* redirect or not found, changes any entry of any instance, value or       *)
(* expire time; so the GET of a second resolve of the same key right after  *)
(* a redirect reads the same url.                                           *)
C16_NonDestructive ==
    [][\A s \in Slots :
          (req'[s] # req[s] /\ req'[s].op = "resolve")
          => /\ shards' = shards
             /\ req'[s].status = 302 =>
                   RedisGet(shards'[Home(req'[s].key)], req'[s].key)
                      = << req'[s].loc >>]_vars

\* two resolves of the same key were both redirected to the same url, and the
\* entry is still there with that url
C16_Witness ==
    \E s, t \in Slots :
        /\ s # t
        /\ Answered(s, "resolve", 302)
        /\ Answered(t, "resolve", 302)
        /\ req[s].key = req[t].key
        /\ req[s].loc = req[t].loc
        /\ Held(req[s].key).present
        /\ Held(req[s].key).val = req[s].loc

\* why a key is not held
Causes == { "never", "removed", "expired" }

\* the one answer of a resolve that finds nothing
NotFoundAnswer(key) ==
    [Idle EXCEPT !.op = "resolve", !.pc = "done", !.key = key,
                 !.status = 404, !.msg = "URL not found"]

(* C17. Not found is the same whatever the cause: a resolve of a key that   *)
(* was never created, was removed, or has expired gets one and the same     *)
(* answer (404 "URL not found", no location), so the answer tells nothing   *)
(* of which it was.                                                         *)
C17_SameNotFound ==
    [][\A s \in Slots :
          (/\ Completes(s, "resolve")
           /\ up[Home(req[s].key)]
           /\ hist[req[s].key].state \in Causes)
          => req'[s] = NotFoundAnswer(req[s].key)]_vars

\* one key has expired and the other was removed, and a resolve of each got the
\* same answer
C17_Witness ==
    \E s, t \in Slots :
        /\ Answered(s, "resolve", 404)
        /\ Answered(t, "resolve", 404)
        /\ req[s] = NotFoundAnswer(req[s].key)
        /\ req[t] = NotFoundAnswer(req[t].key)
        /\ hist[req[s].key].state = "expired"
        /\ hist[req[t].key].state = "removed"
        /\ ~Held(req[s].key).present
        /\ ~Held(req[t].key).present

(* C18. A resolve or a remove whose store command fails is answered with a  *)
(* server error (500), never with not found (404) and never with the text   *)
(* of a not-found answer.                                                   *)
C18_StoreFailure ==
    [][\A s \in Slots :
          (/\ Completes(s, "resolve") \/ Completes(s, "remove")
           /\ ~up[req[s].shard])
          => /\ req'[s].status = 500
             /\ req'[s].status # 404
             /\ req'[s].msg \notin { "URL not found", "Short URL not found" }
             /\ req'[s].loc = ""]_vars

\* a resolve of a key that is not held was answered 500 because its instance
\* was lost
C18_Witness ==
    \E s \in Slots :
        /\ Answered(s, "resolve", 500)
        /\ ~up[Home(req[s].key)]
        /\ ~Held(req[s].key).present

(* C19. Only shorten creates entries: every entry held by any instance is   *)
(* under an id a shorten generated and whose SET was applied, with the url  *)
(* of the last such shorten; the answer to a resolve or a remove, whatever  *)
(* the key, adds no entry and changes no value.                             *)
C19_OnlyShortenCreates ==
    [][/\ \A i \in ShardIds, k \in Paths :
             shards'[i][k].present
             => /\ k \in NanoIds
                /\ i = Home(k)
                /\ hist'[k].state = "written"
                /\ shards'[i][k].val = hist'[k].url
       /\ \A s \in Slots :
             (Completes(s, "resolve") \/ Completes(s, "remove"))
             => \A i \in ShardIds, k \in Paths :
                   shards'[i][k].present => shards'[i][k] = shards[i][k]]_vars

\* a remove of a path no shorten ever issued was answered, that path is held
\* nowhere, and an id written by a shorten is held
C19_Witness ==
    /\ \E s \in Slots : Answered(s, "remove", 404) /\ req[s].key = StrayPath
    /\ \A i \in ShardIds : ~shards[i][StrayPath].present
    /\ \E k \in NanoIds : Held(k).present /\ Held(k).val = hist[k].url

\* the answer the operation of r gets from a store that holds entry e under
\* its key, when every instance is reachable
AllUpAnswer(r, e) ==
    CASE r.op = "resolve" ->
            IF e.present /\ e.val # ""
            THEN Respond(r, 302, "", e.val)
            ELSE Respond(r, 404, "URL not found", "")
      [] r.op = "remove" ->
            IF e.present
            THEN Respond(r, 200, "Short URL deleted successfully", "")
            ELSE Respond(r, 404, "Short URL not found", "")
      [] r.op = "shorten" ->
            IF r.ttl # << >> /\ r.ttl[1] < 0
            THEN Respond(r, 400, "Invalid request", "")
            ELSE [Respond(r, 200, "", "") EXCEPT !.over = e.present]

\* the entry the operation of r leaves under its key in that case
AllUpEntry(r, e) ==
    CASE r.op = "resolve" -> e
      [] r.op = "remove" -> NoEntry
      [] r.op = "shorten" ->
            IF r.ttl # << >> /\ r.ttl[1] < 0 THEN e
            ELSE Entry(r.url[1], now + NominalTtl(r.ttl))

(* C20. Shard fault isolation: an operation whose key selects a reachable   *)
(* instance gets the same answer and has the same effect whether the other  *)
(* instances are reachable or one of them is lost (both are determined by   *)
(* the operation and the entry under its key alone); an operation whose     *)
(* key selects the lost instance fails and changes nothing.                 *)
C20_FaultIsolation ==
    [][\A s \in Slots :
          (/\ req[s].pc = "await"
           /\ req'[s].pc = "done")
          => IF up[Home(req[s].key)]
             THEN /\ req'[s] = AllUpAnswer(req[s], Held(req[s].key))
                  /\ HeldAfter(req[s].key) = AllUpEntry(req[s], Held(req[s].key))
                  /\ OthersKept(req[s].key)
             ELSE /\ req'[s].status \in { 400, 500 }
                  /\ shards' = shards]_vars

\* a resolve was redirected from a reachable instance while another instance
\* was lost
C20_Witness ==
    \E s \in Slots :
        /\ Answered(s, "resolve", 302)
        /\ up[Home(req[s].key)]
        /\ \E i \in ShardIds : ~up[i]
        /\ Held(req[s].key).val = req[s].loc

====
